---- MODULE Spec2Model ----
(***************************************************************************)
(* Object-permanence task generator: placement of the objects              *)
(* (ObjectGenerator.generate_objects), the occluder animation timeline     *)
(* (TaskGenerator._create_occluder_animation_frames and                    *)
(* _render_frame_with_occluder), the scene description                     *)
(* (prompts._format_prompt) and the orchestration                          *)
(* (TaskGenerator.generate_task_pair).                                     *)
(*                                                                         *)
(* Pseudo-random draws (random.Random.randint / choice) are modelled as a  *)
(* nondeterministic choice among the values the call can return; a call    *)
(* with an empty range raises ValueError, as random.randint does.          *)
(* Floating-point values (the occluder x positions) are modelled as exact  *)
(* rationals: an integer numerator over the frame sequence's denominator.  *)
(*                                                                         *)
(* Where the state of the generator matters (successive calls on one       *)
(* ObjectGenerator or TaskGenerator: SpecSeed, SpecSession) self.rng is a  *)
(* deterministic generator whose state seed() resets. SpecParallel follows *)
(* the files two parallel tasks write, read and delete in the temporary    *)
(* directory; SpecBand runs the placement on the default canvas over every *)
(* integer point of the sampling band.                                     *)
(***************************************************************************)
EXTENDS Integers, Sequences, FiniteSets, TLC

\* ------------------------------------------------------------------ bounds
\* randint(a, b) is sampled on the grid a, a+Stride, a+2*Stride, ... plus b.
Stride == 66
\* rng.choice(seq) is sampled among the first NumChoices entries of seq.
NumChoices == 2

\* --------------------------------------------------------- program constants
COLORS == <<"red", "green", "blue", "yellow", "orange", "purple">>
SHAPES == <<"square", "circle", "triangle", "trapezoid">>
max_attempts == 200
min_spacing == 40
size == 30
occluder_width == 50
lane_occluder_x_start == 1
min_distance_from_occluder == 40
fallback_pitch == 50
\* None (an absent seed) is written -1: the seeds the program passes are >= 0.
None == -1

\* Canvas sizes (config.image_size) tried: the default 256x256 and smaller ones.
CanvasWidths == {100, 160, 256}
CanvasHeights == {100, 184, 256}
\* Seeds tried: absent, and an integer.
Seeds == {None, 0}

VARIABLES
  canvas_size,       \* config.image_size = ObjectGenerator.canvas_size, <<w, h>>
  num_objects,       \* argument of generate_objects
  seed,              \* argument of generate_objects (None or an integer)
  objects,           \* the list generate_objects builds and returns
  i,                 \* index of the object being placed (outer loop)
  attempt,           \* index of the attempt (inner loop)
  fallback_ids,      \* ids of the objects appended by the fallback branch
  pc,                \* position in the running function
  difficulty,        \* config.difficulty
  random_seed,       \* config.random_seed
  generate_videos,   \* config.generate_videos
  video_generator,   \* TaskGenerator.video_generator is not None
  first_image,       \* what render_first_frame drew
  final_image,       \* what render_final_frame drew
  occluder_x_start,  \* argument of _create_occluder_animation_frames
  hold_frames,       \* argument of _create_occluder_animation_frames
  transition_frames, \* argument of _create_occluder_animation_frames
  frames,            \* the list _create_occluder_animation_frames returns
  video_path,        \* TaskPair.ground_truth_video
  prompt,            \* what _format_prompt returns
  rng_state,         \* the state of ObjectGenerator.rng (a random.Random)
  call_log,          \* the calls made on one generator so far, in order
  task_hash,         \* hash(task_id) % 2**31 in this process, per task id
  task_pc,           \* per parallel task: its position in generate_task_pair
  frame_no,          \* per parallel task: the animation frame being rendered
  temp_path,         \* per parallel task: temp_path of the frame being rendered
  files              \* shared temporary storage: path -> the task that wrote it

placeVars == <<canvas_size, num_objects, seed, objects, i, attempt, fallback_ids>>
configVars == <<difficulty, random_seed, generate_videos, video_generator>>
renderVars == <<first_image, final_image, frames, video_path>>
timelineVars == <<occluder_x_start, hold_frames, transition_frames>>
sessionVars == <<rng_state, call_log, task_hash>>
fileVars == <<task_pc, frame_no, temp_path, files>>
vars == <<placeVars, pc, configVars, renderVars, timelineVars, prompt,
          sessionVars, fileVars>>

Max(a, b) == IF a >= b THEN a ELSE b
Min(a, b) == IF a <= b THEN a ELSE b

\* int(n * t/10) for t in {2, 8}: Python's int() truncates towards zero.
TruncTenths(n, t) == IF n >= 0 THEN (n * t) \div 10 ELSE -(((-n) * t) \div 10)

\* random.Random.randint(a, b): the values a draw can return (empty: ValueError).
RandInt(a, b) == {v \in a..b : (v - a) % Stride = 0 \/ v = b}

\* random.Random.choice(seq)
Choice(seq) == {seq[k] : k \in 1..Min(NumChoices, Len(seq))}

margin == size \div 2 + min_spacing
occluder_right_edge == lane_occluder_x_start + occluder_width
x_min == Max(margin, occluder_right_edge + min_distance_from_occluder)
center_width(canvas_w) == (canvas_w - margin) - x_min
x_min_center(canvas_w) == x_min + TruncTenths(center_width(canvas_w), 2)
\* Mutant of x_max_center: the band runs to center_end, without the 80% inset.
x_max_center_NoInset(canvas_w) == canvas_w - margin

x_max_center(canvas_w) == x_min + TruncTenths(center_width(canvas_w), 8)
y_min(canvas_h) == TruncTenths(canvas_h, 2) + margin
y_max(canvas_h) == TruncTenths(canvas_h, 8) - margin

\* The candidate centres <<x, y>> one attempt can draw on a canvas: x, then y.
\* Either range being empty makes its randint call raise, and no candidate exists.
Candidates(canvas) ==
  RandInt(x_min_center(canvas[1]), x_max_center(canvas[1]))
    \X RandInt(y_min(canvas[2]), y_max(canvas[2]))

\* Mutant of Collision: the minimum distance without min_spacing.
Collision_NoSpacing(x, y, objs) ==
  \E k \in 1..Len(objs) :
    LET dx == x - objs[k].x
        dy == y - objs[k].y
        min_distance == (size + objs[k].size) \div 2
    IN  dx * dx + dy * dy < min_distance * min_distance

\* The collision check: np.sqrt(dx*dx + dy*dy) < min_distance for some placed
\* object, compared on the squares (all operands are integers).
Collision(x, y, objs) ==
  \E k \in 1..Len(objs) :
    LET dx == x - objs[k].x
        dy == y - objs[k].y
        min_distance == (size + objs[k].size) \div 2 + min_spacing
    IN  dx * dx + dy * dy < min_distance * min_distance

\* area by shape; int(np.pi * r**2) with pi to 4 decimals, int(s*s*0.433), int(s*s*0.75)
Area(shape, sz) ==
  IF shape = "square" THEN sz * sz
  ELSE IF shape = "circle" THEN ((sz \div 2) * (sz \div 2) * 31416) \div 10000
  ELSE IF shape = "triangle" THEN (sz * sz * 433) \div 1000
  ELSE (sz * sz * 75) \div 100

Obj(id, color, shape, x, y) ==
  [id |-> id, color |-> color, shape |-> shape, x |-> x, y |-> y,
   size |-> size, area |-> Area(shape, size)]

\* The fallback position of object id among n objects.
FallbackX(canvas_w) == canvas_w \div 2
FallbackY(canvas_h, id, n) == canvas_h \div 2 + (id - n \div 2) * fallback_pitch

\* After object i has been appended: next object, or return objects.
AfterAppend(id) == IF id + 1 < num_objects THEN "attempt" ELSE "returned"

\* An absent optional string (difficulty, video path).
Absent == "<None>"
\* An image not rendered yet, a prompt not built yet.
NoImage == [draws |-> <<>>, occluder |-> <<>>]
NoPrompt == [objects_description |-> "", objects_reference |-> "",
             objects_pronoun |-> "", text |-> ""]

\* No parallel tasks: nothing in shared temporary storage.
NoFiles ==
  /\ task_pc = <<>>
  /\ frame_no = <<>>
  /\ temp_path = <<>>
  /\ files = <<>>

\* One generator call and one task at a time: no call log, no parallel task.
\* The draws of self.rng are then a nondeterministic choice (RandInt, Choice).
NoSession ==
  /\ rng_state = 0
  /\ call_log = <<>>
  /\ task_hash = <<>>
  /\ NoFiles

\* The state of everything outside generate_objects before it is used.
Idle ==
  /\ difficulty = Absent
  /\ random_seed = None
  /\ generate_videos = FALSE
  /\ video_generator = FALSE
  /\ first_image = NoImage
  /\ final_image = NoImage
  /\ occluder_x_start = 0
  /\ hold_frames = 0
  /\ transition_frames = 0
  /\ frames = <<>>
  /\ video_path = Absent
  /\ prompt = NoPrompt

InitPlace ==
  /\ canvas_size \in CanvasWidths \X CanvasHeights
  /\ num_objects \in 1..3
  /\ seed \in Seeds
  /\ objects = <<>>
  /\ i = 0
  /\ attempt = 0
  /\ fallback_ids = {}
  /\ pc = "attempt"
  /\ Idle
  /\ NoSession

\* One attempt whose randint call has an empty range: ValueError propagates.
AttemptRaises ==
  /\ pc = "attempt"
  /\ Candidates(canvas_size) = {}
  /\ pc' = "raised"
  /\ UNCHANGED <<placeVars, configVars, renderVars, timelineVars, prompt>>
  /\ UNCHANGED <<sessionVars, fileVars>>

\* One attempt whose candidate collides with a placed object.
AttemptCollides ==
  /\ pc = "attempt"
  /\ {c \in Candidates(canvas_size) : Collision(c[1], c[2], objects)} # {}
  /\ attempt' = attempt + 1
  /\ pc' = IF attempt + 1 < max_attempts THEN "attempt" ELSE "fallback"
  /\ UNCHANGED <<canvas_size, num_objects, seed, objects, i, fallback_ids>>
  /\ UNCHANGED <<configVars, renderVars, timelineVars, prompt>>
  /\ UNCHANGED <<sessionVars, fileVars>>

\* One attempt whose candidate passes the collision check: it is appended.
AttemptPlaces ==
  /\ pc = "attempt"
  /\ \E c \in Candidates(canvas_size) :
     \E color \in Choice(COLORS) : \E shape \in Choice(SHAPES) :
        /\ ~Collision(c[1], c[2], objects)
        /\ objects' = Append(objects, Obj(i, color, shape, c[1], c[2]))
  /\ i' = i + 1
  /\ attempt' = 0
  /\ pc' = AfterAppend(i)
  /\ UNCHANGED <<canvas_size, num_objects, seed, fallback_ids>>
  /\ UNCHANGED <<configVars, renderVars, timelineVars, prompt>>
  /\ UNCHANGED <<sessionVars, fileVars>>

\* The fallback branch (placed = False after max_attempts attempts).
Fallback ==
  /\ pc = "fallback"
  /\ \E color \in Choice(COLORS) : \E shape \in Choice(SHAPES) :
        objects' = Append(objects,
                     Obj(i, color, shape, FallbackX(canvas_size[1]),
                         FallbackY(canvas_size[2], i, num_objects)))
  /\ fallback_ids' = fallback_ids \cup {i}
  /\ i' = i + 1
  /\ attempt' = 0
  /\ pc' = AfterAppend(i)
  /\ UNCHANGED <<canvas_size, num_objects, seed>>
  /\ UNCHANGED <<configVars, renderVars, timelineVars, prompt>>
  /\ UNCHANGED <<sessionVars, fileVars>>

NextPlace == AttemptRaises \/ AttemptCollides \/ AttemptPlaces \/ Fallback

SpecPlace == InitPlace /\ [][NextPlace]_vars

\* ------------------------------------------------------------ rendering
\* COLOR_MAP.get(color, "#000000")
COLOR_MAP(color) ==
  CASE color = "red" -> "#FF0000"
    [] color = "green" -> "#00FF00"
    [] color = "blue" -> "#0000FF"
    [] color = "yellow" -> "#FFFF00"
    [] color = "orange" -> "#FFA500"
    [] color = "purple" -> "#800080"
    [] OTHER -> "#000000"

\* Mutant of DrawObjects: x and y swapped in the _draw_object call.
DrawObjects_SwappedXY(objs) ==
  [k \in 1..Len(objs) |->
     [x |-> objs[k].y, y |-> objs[k].x, size |-> objs[k].size,
      shape |-> objs[k].shape, color |-> COLOR_MAP(objs[k].color)]]

\* The "for obj in objects" loop of the three render functions: the sequence of
\* _draw_object calls, one per object, in order.
DrawObjects(objs) ==
  [k \in 1..Len(objs) |->
     [x |-> objs[k].x, y |-> objs[k].y, size |-> objs[k].size,
      shape |-> objs[k].shape, color |-> COLOR_MAP(objs[k].color)]]

edge_margin == 1

\* SceneRenderer.render_first_frame: the objects, then the occluder, always drawn.
RenderFirstFrame(objs, occluder_x) ==
  [draws |-> DrawObjects(objs),
   occluder |-> <<[x |-> occluder_x + edge_margin, width |-> occluder_width]>>]

\* SceneRenderer.render_final_frame: the objects and no occluder.
RenderFinalFrame(objs) == [draws |-> DrawObjects(objs), occluder |-> <<>>]

\* Mutant of VisibleWidth: the width measured from occluder_x, not from
\* occluder_x_adjusted.
VisibleWidth_NoEdgeMargin(xn, den, canvas_w) ==
  Min(occluder_width * den, canvas_w * den - xn)

\* An occluder position is a rational: the numerator xn over the denominator den
\* of its frame sequence. Widths and drawn positions carry the same denominator.
\* min(occluder_width, canvas_w - occluder_x_adjusted), times den.
VisibleWidth(xn, den, canvas_w) ==
  Min(occluder_width * den, canvas_w * den - (xn + edge_margin * den))

\* TaskGenerator._render_frame_with_occluder: the objects, then the occluder when
\* the three nested conditions hold, with the clamped width.
RenderFrameWithOccluder(objs, xn, den, canvas_w) ==
  [occluder_x |-> xn,
   draws |-> DrawObjects(objs),
   occluder |->
     IF /\ xn < (canvas_w + occluder_width) * den
        /\ (xn + edge_margin * den) + occluder_width * den > 0
        /\ VisibleWidth(xn, den, canvas_w) > 0
     THEN <<[x |-> xn + edge_margin * den, width |-> VisibleWidth(xn, den, canvas_w)]>>
     ELSE <<>>]

\* Mutant of ProgressNum: progress 0.0 in the degenerate case.
ProgressNum_DegenerateZero(k, tf) == IF tf > 1 THEN k ELSE 0

\* progress = i / (transition_frames - 1) if transition_frames > 1 else 1.0,
\* as numerator and denominator.
ProgressNum(k, tf) == IF tf > 1 THEN k ELSE 1
ProgressDen(tf) == IF tf > 1 THEN tf - 1 ELSE 1

\* current_x = occluder_x_start + (occluder_x_end - occluder_x_start) * progress,
\* as the numerator over ProgressDen(tf).
CurrentX(k, tf, x_start, x_end) ==
  x_start * ProgressDen(tf) + (x_end - x_start) * ProgressNum(k, tf)

\* "for _ in range(n): frames.append(frame)"
Hold(frame, n) == [k \in 1..n |-> frame]

\* TaskGenerator._create_occluder_animation_frames
CreateOccluderAnimationFrames(objs, x_start, hold, tf, canvas_w) ==
  LET den == ProgressDen(tf)
      occluder_x_end == canvas_w + occluder_width
      first_frame == RenderFrameWithOccluder(objs, x_start * den, den, canvas_w)
      transition ==
        [k \in 1..tf |->
           RenderFrameWithOccluder(objs, CurrentX(k - 1, tf, x_start, occluder_x_end),
                                   den, canvas_w)]
      final_frame ==
        RenderFrameWithOccluder(objs, (canvas_w + occluder_width) * den, den, canvas_w)
  IN  Hold(first_frame, hold) \o transition \o Hold(final_frame, hold)

\* ------------------------------------------------------------ prompts
LowerLetters == "abcdefghijklmnopqrstuvwxyz"
UpperLetters == "ABCDEFGHIJKLMNOPQRSTUVWXYZ"
Digits == "0123456789"

\* str.upper() / str.lower() of one character
Upper(c) ==
  IF \E k \in 1..Len(LowerLetters) : SubSeq(LowerLetters, k, k) = c
  THEN LET k == CHOOSE k \in 1..Len(LowerLetters) : SubSeq(LowerLetters, k, k) = c
       IN  SubSeq(UpperLetters, k, k)
  ELSE c
Lower(c) ==
  IF \E k \in 1..Len(UpperLetters) : SubSeq(UpperLetters, k, k) = c
  THEN LET k == CHOOSE k \in 1..Len(UpperLetters) : SubSeq(UpperLetters, k, k) = c
       IN  SubSeq(LowerLetters, k, k)
  ELSE c

\* str(n) for n >= 0
RECURSIVE Str(_)
Str(n) ==
  IF n < 10 THEN SubSeq(Digits, n + 1, n + 1)
  ELSE Str(n \div 10) \o SubSeq(Digits, (n % 10) + 1, (n % 10) + 1)

PROMPT_TEMPLATE(objects_description, objects_reference, objects_pronoun) ==
  "The scene contains several stable 2D objects on a flat plane:\n\n"
  \o "(1) " \o objects_description \o "\n\n"
  \o "(2) A tall narrow vertical gray rectangle positioned on the left side of the scene.\n\n"
  \o "Move the tall narrow vertical gray rectangle horizontally to the right at a steady speed, "
  \o "keeping it in its vertical orientation throughout the entire movement.\n\n"
  \o "As it moves, the tall narrow vertical gray rectangle will pass in front of "
  \o objects_reference
  \o " on the 2D plane and occlude " \o objects_pronoun
  \o ", without any physical interaction.\n\n"
  \o "Continue moving the tall narrow vertical gray rectangle to the right until it has fully exited the scene.\n\n"
  \o "The camera view remains fixed for the entire sequence."

get_article(word) ==
  IF Lower(SubSeq(word, 1, 1)) \in {"a", "e", "i", "o", "u"} THEN "an" ELSE "a"

\* Mutant of number_to_word: ten is no longer spelled out.
number_to_word_UpToNine(n) ==
  IF 1 <= n /\ n <= 9
  THEN <<"one", "two", "three", "four", "five", "six", "seven", "eight", "nine">>[n]
  ELSE Str(n)

words == <<"one", "two", "three", "four", "five", "six", "seven", "eight", "nine", "ten">>
number_to_word(n) == IF 1 <= n /\ n <= 10 THEN words[n] ELSE Str(n)

\* (obj['color'], obj['shape'])
Key(obj) == <<obj.color, obj.shape>>

\* Counter(object_keys)[key]
object_counts(objs, key) == Cardinality({k \in 1..Len(objs) : Key(objs[k]) = key})

\* The loop building description_parts, from object k on, with the keys seen so far.
RECURSIVE DescriptionPartsFrom(_, _, _)
DescriptionPartsFrom(objs, k, seen) ==
  IF k > Len(objs) THEN <<>>
  ELSE IF Key(objs[k]) \in seen THEN DescriptionPartsFrom(objs, k + 1, seen)
  ELSE LET obj == objs[k]
           count == object_counts(objs, Key(obj))
           article == get_article(obj.color)
           part == IF count = 1
                   THEN article \o " " \o obj.color \o " " \o obj.shape
                   ELSE number_to_word(count) \o " " \o obj.color \o " " \o obj.shape \o "s"
       IN  <<part>> \o DescriptionPartsFrom(objs, k + 1, seen \cup {Key(obj)})

description_parts(objs) == DescriptionPartsFrom(objs, 1, {})

capitalize_first(s) ==
  IF s = "" THEN s
  ELSE IF Len(s) > 1 THEN Upper(SubSeq(s, 1, 1)) \o SubSeq(s, 2, Len(s))
  ELSE Upper(s)

\* sep.join(parts)
RECURSIVE Join(_, _)
Join(parts, sep) ==
  IF Len(parts) = 0 THEN ""
  ELSE IF Len(parts) = 1 THEN parts[1]
  ELSE parts[1] \o sep \o Join(Tail(parts), sep)

\* Mutant of ObjectsDescription: with three or more objects, two parts are joined
\* like three.
ObjectsDescription_OxfordForTwo(objs) ==
  LET parts == description_parts(objs)
      n == Len(parts)
  IN  IF n = 1 THEN capitalize_first(parts[1])
      ELSE IF Len(objs) = 2 THEN capitalize_first(parts[1]) \o " and " \o parts[2]
      ELSE capitalize_first(parts[1]) \o ", " \o Join(SubSeq(parts, 2, n - 1), ", ")
             \o ", and " \o parts[n]

\* objects_description, by the branches on num_objects and len(description_parts)
ObjectsDescription(objs) ==
  LET parts == description_parts(objs)
      n == Len(parts)
  IN  IF Len(objs) = 1 THEN capitalize_first(parts[1])
      ELSE IF Len(objs) = 2 THEN
        IF n = 1 THEN capitalize_first(parts[1])
        ELSE capitalize_first(parts[1]) \o " and " \o parts[2]
      ELSE
        IF n = 1 THEN capitalize_first(parts[1])
        ELSE IF n = 2 THEN capitalize_first(parts[1]) \o " and " \o parts[2]
        ELSE capitalize_first(parts[1]) \o ", " \o Join(SubSeq(parts, 2, n - 1), ", ")
               \o ", and " \o parts[n]

\* Mutant of ObjectsReference: chosen by the number of groups.
ObjectsReference_ByGroups(objs) ==
  IF Len(description_parts(objs)) = 1 THEN "the " \o objs[1].shape
  ELSE "the other objects"

ObjectsReference(objs) ==
  IF Len(objs) = 1 THEN "the " \o objs[1].shape ELSE "the other objects"

ObjectsPronoun(objs) == IF Len(objs) = 1 THEN "it" ELSE "them"

\* prompts._format_prompt(PROMPT_TEMPLATE, objects) = get_prompt(objects, difficulty)
FormatPrompt(objs) ==
  [objects_description |-> ObjectsDescription(objs),
   objects_reference |-> ObjectsReference(objs),
   objects_pronoun |-> ObjectsPronoun(objs),
   text |-> PROMPT_TEMPLATE(ObjectsDescription(objs), ObjectsReference(objs),
                            ObjectsPronoun(objs))]

\* ------------------------------------------------ the animation timeline alone
\* Bounds of the arguments tried; the defaults (5, 25) lie inside them.
MaxHoldFrames == 6
MaxTransitionFrames == 26
default_hold_frames == 5
default_transition_frames == 25
OccluderStarts == {0, 20}
\* The canvases on which generate_objects returns a scene to animate.
TimelineCanvasSizes == {c \in CanvasWidths \X CanvasHeights : Candidates(c) # {}}

\* A scene of n objects side by side, for the functions that only read the scene.
SampleScene(n) == [k \in 1..n |-> Obj(k - 1, COLORS[k], SHAPES[k], 100 + 40 * k, 128)]

InitTimeline ==
  /\ canvas_size \in TimelineCanvasSizes
  /\ num_objects \in 1..2
  /\ objects = SampleScene(num_objects)
  /\ seed = None
  /\ i = num_objects
  /\ attempt = 0
  /\ fallback_ids = {}
  /\ pc = "create_frames"
  /\ difficulty = Absent
  /\ random_seed = None
  /\ generate_videos = TRUE
  /\ video_generator = TRUE
  /\ first_image = NoImage
  /\ final_image = NoImage
  /\ occluder_x_start \in OccluderStarts
  /\ hold_frames \in 1..MaxHoldFrames
  /\ transition_frames \in 1..MaxTransitionFrames
  /\ frames = <<>>
  /\ video_path = Absent
  /\ prompt = NoPrompt
  /\ NoSession

\* A call of _create_occluder_animation_frames with the arguments drawn.
CreateFrames ==
  /\ pc = "create_frames"
  /\ frames' = CreateOccluderAnimationFrames(objects, occluder_x_start, hold_frames,
                                             transition_frames, canvas_size[1])
  /\ pc' = "frames_created"
  /\ UNCHANGED <<placeVars, configVars, first_image, final_image, video_path,
                 timelineVars, prompt>>
  /\ UNCHANGED <<sessionVars, fileVars>>

NextTimeline == CreateFrames

SpecTimeline == InitTimeline /\ [][NextTimeline]_vars

\* ------------------------------------------------------ _format_prompt alone
\* generate_task_pair passes at most 3 objects (difficulty "hard").
max_num_objects == 3
\* Longer inputs: up to MaxGroups objects of a few kinds, and a kind repeated up
\* to MaxCount times.
MaxGroups == 4
MaxCount == 11

Range(seq) == {seq[k] : k \in 1..Len(seq)}
Kinds == Range(COLORS) \X Range(SHAPES)
FewKinds == {<<"red", "square">>, <<"orange", "circle">>, <<"blue", "triangle">>,
             <<"orange", "trapezoid">>, <<"green", "triangle">>}

\* The object sequence with the given (color, shape) pairs.
SceneOf(keys) == [k \in 1..Len(keys) |-> Obj(k - 1, keys[k][1], keys[k][2], 128, 128)]

PromptInputs ==
  {SceneOf(keys) : keys \in UNION {[1..n -> Kinds] : n \in 1..max_num_objects}}
  \cup {SceneOf(keys) : keys \in UNION {[1..n -> FewKinds] : n \in 4..MaxGroups}}
  \cup {SceneOf(prefix \o [k \in 1..n |-> kind]) :
          prefix \in {<<>>, <<<<"red", "square">>>>}, n \in 2..MaxCount, kind \in Kinds}

InitPrompt ==
  /\ canvas_size = <<256, 256>>
  /\ objects \in PromptInputs
  /\ num_objects = Len(objects)
  /\ seed = None
  /\ i = num_objects
  /\ attempt = 0
  /\ fallback_ids = {}
  /\ pc = "get_prompt"
  /\ Idle
  /\ NoSession

\* get_prompt(objects, difficulty)
GetPrompt ==
  /\ pc = "get_prompt"
  /\ prompt' = FormatPrompt(objects)
  /\ pc' = "done"
  /\ UNCHANGED <<placeVars, configVars, renderVars, timelineVars>>
  /\ UNCHANGED <<sessionVars, fileVars>>

NextPrompt == GetPrompt

SpecPrompt == InitPrompt /\ [][NextPrompt]_vars

\* --------------------------------------------------- generate_task_pair
task_occluder_x_start == 0

\* config.difficulty: the three levels, an unrecognized string, "" and None.
Difficulties == {"easy", "medium", "hard", "expert", "", Absent}
\* config.image_size values tried for whole tasks.
TaskCanvasSizes == {<<256, 256>>, <<100, 100>>}

\* Mutant of NumObjectsFor: the else branch falls to the hardest level.
NumObjectsFor_ElseThree(d) ==
  LET level == IF d = Absent \/ d = "" THEN "easy" ELSE d
  IN  IF level = "easy" THEN 1
      ELSE IF level = "medium" THEN 2
      ELSE 3

\* difficulty = self.config.difficulty or "easy", then the if/elif chain.
NumObjectsFor(d) ==
  LET level == IF d = Absent \/ d = "" THEN "easy" ELSE d
  IN  IF level = "easy" THEN 1
      ELSE IF level = "medium" THEN 2
      ELSE IF level = "hard" THEN 3
      ELSE 1

\* seed = hash(task_id) % (2**31) when a random seed is configured, else None.
TaskSeeds(configured) == IF configured = None THEN {None} ELSE Seeds \ {None}

\* TaskGenerator.__init__: the video generator exists only if videos are enabled
\* and VideoGenerator.is_available().
InitTask ==
  /\ canvas_size \in TaskCanvasSizes
  /\ difficulty \in Difficulties
  /\ random_seed \in Seeds
  /\ generate_videos \in BOOLEAN
  /\ video_generator \in (IF generate_videos THEN BOOLEAN ELSE {FALSE})
  /\ num_objects = 0
  /\ seed = None
  /\ objects = <<>>
  /\ i = 0
  /\ attempt = 0
  /\ fallback_ids = {}
  /\ pc = "generate_task_pair"
  /\ first_image = NoImage
  /\ final_image = NoImage
  /\ occluder_x_start = 0
  /\ hold_frames = 0
  /\ transition_frames = 0
  /\ frames = <<>>
  /\ video_path = Absent
  /\ prompt = NoPrompt
  /\ NoSession

\* generate_task_pair up to its call of generate_objects.
CallGenerateObjects ==
  /\ pc = "generate_task_pair"
  /\ num_objects' = NumObjectsFor(difficulty)
  /\ seed' \in TaskSeeds(random_seed)
  /\ objects' = <<>>
  /\ i' = 0
  /\ attempt' = 0
  /\ fallback_ids' = {}
  /\ pc' = "attempt"
  /\ UNCHANGED <<canvas_size, configVars, renderVars, timelineVars, prompt>>
  /\ UNCHANGED <<sessionVars, fileVars>>

\* self.renderer.render_first_frame(objects, occluder_x_start, first_image_path)
RenderFirst ==
  /\ pc = "returned"
  /\ first_image' = RenderFirstFrame(objects, task_occluder_x_start)
  /\ pc' = "render_final"
  /\ UNCHANGED <<placeVars, configVars, final_image, frames, video_path,
                 timelineVars, prompt>>
  /\ UNCHANGED <<sessionVars, fileVars>>

\* self.renderer.render_final_frame(objects, final_image_path)
RenderFinal ==
  /\ pc = "render_final"
  /\ final_image' = RenderFinalFrame(objects)
  /\ pc' = "video"
  /\ UNCHANGED <<placeVars, configVars, first_image, frames, video_path,
                 timelineVars, prompt>>
  /\ UNCHANGED <<sessionVars, fileVars>>

\* _generate_video: the frames with the default hold and transition lengths, then
\* the encoder, whose result is a path or nothing.
GenerateVideo ==
  /\ pc = "video"
  /\ generate_videos /\ video_generator
  /\ occluder_x_start' = task_occluder_x_start
  /\ hold_frames' = default_hold_frames
  /\ transition_frames' = default_transition_frames
  /\ frames' = CreateOccluderAnimationFrames(objects, task_occluder_x_start,
                  default_hold_frames, default_transition_frames, canvas_size[1])
  /\ video_path' \in {"ground_truth.mp4", Absent}
  /\ pc' = "get_prompt"
  /\ UNCHANGED <<placeVars, configVars, first_image, final_image, prompt>>
  /\ UNCHANGED <<sessionVars, fileVars>>

\* video_path stays None: videos disabled or no video generator.
SkipVideo ==
  /\ pc = "video"
  /\ ~(generate_videos /\ video_generator)
  /\ pc' = "get_prompt"
  /\ UNCHANGED <<placeVars, configVars, renderVars, timelineVars, prompt>>
  /\ UNCHANGED <<sessionVars, fileVars>>

NextTask ==
  \/ CallGenerateObjects
  \/ AttemptRaises \/ AttemptCollides \/ AttemptPlaces \/ Fallback
  \/ RenderFirst \/ RenderFinal \/ GenerateVideo \/ SkipVideo
  \/ GetPrompt

SpecTask == InitTask /\ [][NextTask]_vars

\* --------------------------------------- self.rng as a seeded generator
\* random.Random is deterministic: a draw returns a value computed from the
\* generator state and advances the state, and seed(s) sets a state computed from
\* s alone. The Mersenne Twister is replaced by a small counter-based generator,
\* which has these two properties: the state after k draws, and the raw value a
\* draw returns in state r.
RngAdvance(r, k) == (r + k) % 32749
RngOutput(r) == (r * r + 1103 * r + 12345) % 32749
\* self.rng.seed(s)
SeedState(s) == (s * 7919 + 4409) % 32749
\* self.rng.randint(a, b) and self.rng.choice(seq), drawn in state r.
RngRandInt(r, a, b) == a + (RngOutput(r) % (b - a + 1))
RngChoice(r, seq) == seq[1 + (RngOutput(r) % Len(seq))]

\* Mutant of Reseed: the generator is never reseeded.
Reseed_Never(r, s) == r

\* if seed is not None: self.rng.seed(seed)
Reseed(r, s) == IF s # None THEN SeedState(s) ELSE r

\* The candidate <<x, y>> of attempt att (0-based) of an object whose attempts
\* start in state r: each attempt draws x, then y.
AttemptCandidate(r, att, canvas) ==
  <<RngRandInt(RngAdvance(r, 2 * att), x_min_center(canvas[1]), x_max_center(canvas[1])),
    RngRandInt(RngAdvance(r, 2 * att + 1), y_min(canvas[2]), y_max(canvas[2]))>>

\* The loops of generate_objects run from generator state r, object id being the
\* next to place. The first attempt that passes the collision check places the
\* object and then draws its color and shape; if none of max_attempts does, the
\* fallback branch draws them. The result is the list, the ids placed by the
\* fallback branch and the generator state left behind.
RECURSIVE PlaceFrom(_, _, _, _, _, _)
PlaceFrom(r, objs, fb, id, n, canvas) ==
  IF id >= n THEN [objects |-> objs, fallback_ids |-> fb, rng |-> r]
  ELSE
    LET accepted == {att \in 0..(max_attempts - 1) :
                       LET c == AttemptCandidate(r, att, canvas)
                       IN  ~Collision(c[1], c[2], objs)}
    IN  IF accepted = {}
        THEN LET r1 == RngAdvance(r, 2 * max_attempts)
                 obj == Obj(id, RngChoice(r1, COLORS), RngChoice(RngAdvance(r1, 1), SHAPES),
                            FallbackX(canvas[1]), FallbackY(canvas[2], id, n))
             IN  PlaceFrom(RngAdvance(r1, 2), Append(objs, obj), fb \cup {id},
                           id + 1, n, canvas)
        ELSE LET att == CHOOSE a \in accepted : \A b \in accepted : a <= b
                 c == AttemptCandidate(r, att, canvas)
                 r1 == RngAdvance(r, 2 * att + 2)
                 obj == Obj(id, RngChoice(r1, COLORS), RngChoice(RngAdvance(r1, 1), SHAPES),
                            c[1], c[2])
             IN  PlaceFrom(RngAdvance(r1, 2), Append(objs, obj), fb, id + 1, n, canvas)

\* generate_objects(num_objects = n, seed = s) called in generator state r.
GenerateObjectsFrom(r, n, s, canvas) == PlaceFrom(Reseed(r, s), <<>>, {}, 0, n, canvas)

\* ------------------------------ successive calls on one ObjectGenerator
\* Calls per generator.
MaxCalls == 3
\* Seeds passed: absent and two integers.
CallSeeds == Seeds \cup {1}
\* The states random.Random() can start in (seeded from operating-system entropy).
InitialRngStates == {1, 2}

\* Canvases of the generators: the default one, and one whose band holds so few
\* points that the fallback branch places the later objects.
SessionCanvasSizes == {<<256, 256>>, <<160, 184>>}

\* What the log keeps of a call.
LogEntry(id, n, s, r, objs) ==
  [task_id |-> id, num_objects |-> n, seed |-> s, rng_before |-> r, objects |-> objs]

InitSeed ==
  /\ canvas_size \in SessionCanvasSizes
  /\ num_objects = 0
  /\ seed = None
  /\ objects = <<>>
  /\ i = 0
  /\ attempt = 0
  /\ fallback_ids = {}
  /\ pc = "constructed"
  /\ Idle
  /\ rng_state \in InitialRngStates
  /\ call_log = <<>>
  /\ task_hash = <<>>
  /\ NoFiles

\* One call generate_objects(n, s) on the generator, from entry to return.
GenerateObjects ==
  /\ pc \in {"constructed", "returned"}
  /\ Len(call_log) < MaxCalls
  /\ \E n \in 1..3 : \E s \in CallSeeds :
       \E result \in {GenerateObjectsFrom(rng_state, n, s, canvas_size)} :
           /\ num_objects' = n
           /\ seed' = s
           /\ objects' = result.objects
           /\ fallback_ids' = result.fallback_ids
           /\ rng_state' = result.rng
           /\ i' = n
           /\ call_log' = Append(call_log,
                            LogEntry(Absent, n, s, rng_state, result.objects))
  /\ attempt' = 0
  /\ pc' = "returned"
  /\ UNCHANGED <<canvas_size, configVars, renderVars, timelineVars, prompt>>
  /\ UNCHANGED <<task_hash, fileVars>>

NextSeed == GenerateObjects

SpecSeed == InitSeed /\ [][NextSeed]_vars

\* ------------------------ successive generate_task_pair calls on one TaskGenerator
TaskIds == {"task_a", "task_b"}
\* The values hash(task_id) % (2**31) can take: hash() of a string differs from
\* process to process and is fixed within one.
TaskHashes == {0, 1}

\* seed = hash(task_id) % (2**31) when a random seed is configured, else None.
TaskSeed(t) == IF random_seed # None THEN task_hash[t] ELSE None

\* TaskGenerator.__init__, which constructs the one ObjectGenerator of the session.
InitSession ==
  /\ canvas_size \in SessionCanvasSizes
  /\ difficulty \in Difficulties
  /\ random_seed \in Seeds
  /\ generate_videos \in BOOLEAN
  /\ video_generator \in (IF generate_videos THEN BOOLEAN ELSE {FALSE})
  /\ num_objects = 0
  /\ seed = None
  /\ objects = <<>>
  /\ i = 0
  /\ attempt = 0
  /\ fallback_ids = {}
  /\ pc = "constructed"
  /\ first_image = NoImage
  /\ final_image = NoImage
  /\ occluder_x_start = 0
  /\ hold_frames = 0
  /\ transition_frames = 0
  /\ frames = <<>>
  /\ video_path = Absent
  /\ prompt = NoPrompt
  /\ rng_state \in InitialRngStates
  /\ call_log = <<>>
  /\ task_hash \in [TaskIds -> TaskHashes]
  /\ NoFiles

\* One call generate_task_pair(t), from entry to the returned TaskPair.
GenerateTaskPair ==
  /\ pc \in {"constructed", "done"}
  /\ Len(call_log) < MaxCalls
  /\ \E t \in TaskIds :
     \E result \in {GenerateObjectsFrom(rng_state, NumObjectsFor(difficulty),
                                        TaskSeed(t), canvas_size)} :
       /\ num_objects' = NumObjectsFor(difficulty)
       /\ seed' = TaskSeed(t)
       /\ objects' = result.objects
       /\ fallback_ids' = result.fallback_ids
       /\ rng_state' = result.rng
       /\ i' = NumObjectsFor(difficulty)
       /\ first_image' = RenderFirstFrame(result.objects, task_occluder_x_start)
       /\ final_image' = RenderFinalFrame(result.objects)
       /\ IF generate_videos /\ video_generator
          THEN /\ occluder_x_start' = task_occluder_x_start
               /\ hold_frames' = default_hold_frames
               /\ transition_frames' = default_transition_frames
               /\ frames' = CreateOccluderAnimationFrames(result.objects,
                               task_occluder_x_start, default_hold_frames,
                               default_transition_frames, canvas_size[1])
               /\ video_path' \in {"ground_truth.mp4", Absent}
          ELSE /\ video_path' = Absent
               /\ UNCHANGED <<timelineVars, frames>>
       /\ prompt' = FormatPrompt(result.objects)
       /\ call_log' = Append(call_log,
                        LogEntry(t, NumObjectsFor(difficulty), TaskSeed(t), rng_state,
                                 result.objects))
  /\ attempt' = 0
  /\ pc' = "done"
  /\ UNCHANGED <<canvas_size, configVars, task_hash, fileVars>>

NextSession == GenerateTaskPair

SpecSession == InitSession /\ [][NextSession]_vars

\* ------------------------------- two tasks generated in parallel: the files
\* random.randint(0, 1000000) of the temporary frame name draws from 0..MaxTempNumber.
MaxTempNumber == 1
\* config.domain
domain == "object_permanence"

\* tempfile.gettempdir() / ...
FirstImagePath(t) == "<tmp>/" \o domain \o "_images/" \o t \o "_first.png"
FinalImagePath(t) == "<tmp>/" \o domain \o "_images/" \o t \o "_final.png"
VideoPath(t) == "<tmp>/" \o domain \o "_videos/" \o t \o "_ground_truth.mp4"
TempFramePath(n) == "<tmp>/temp_frame_" \o Str(n) \o ".png"

\* _render_frame_with_occluder calls of one animation: the first frame, one per
\* transition frame, the final frame.
RenderCalls(tf) == 1 + tf + 1

\* A file written, a file deleted.
Written(fs, path, t) == [p \in DOMAIN fs \cup {path} |-> IF p = path THEN t ELSE fs[p]]
Unlinked(fs, path) == [p \in DOMAIN fs \ {path} |-> fs[p]]

At(t, label) == [task_pc EXCEPT ![t] = label]

\* Two generate_task_pair calls with distinct task ids, started by the harness on
\* generators of the same configuration, sharing the temporary directory.
InitParallel ==
  /\ canvas_size = <<256, 256>>
  /\ num_objects = 1
  /\ objects = SampleScene(1)
  /\ seed = None
  /\ i = 1
  /\ attempt = 0
  /\ fallback_ids = {}
  /\ pc = "parallel"
  /\ difficulty = "easy"
  /\ random_seed = None
  /\ generate_videos \in BOOLEAN
  /\ video_generator = generate_videos
  /\ first_image = NoImage
  /\ final_image = NoImage
  /\ occluder_x_start = 0
  /\ hold_frames = 0
  /\ transition_frames = 0
  /\ frames = <<>>
  /\ video_path = Absent
  /\ prompt = NoPrompt
  /\ rng_state = 0
  /\ call_log = <<>>
  /\ task_hash = <<>>
  /\ task_pc = [t \in TaskIds |-> "render_first"]
  /\ frame_no = [t \in TaskIds |-> 0]
  /\ temp_path = [t \in TaskIds |-> Absent]
  /\ files = <<>>

\* What the file operations of the tasks leave alone.
restOfState == <<placeVars, pc, configVars, renderVars, timelineVars, prompt, sessionVars>>

\* render_first_frame(objects, occluder_x_start, first_image_path): savefig
SaveFirstImage ==
  \E t \in TaskIds :
    /\ task_pc[t] = "render_first"
    /\ files' = Written(files, FirstImagePath(t), t)
    /\ task_pc' = At(t, "render_final")
    /\ UNCHANGED <<frame_no, temp_path>>
    /\ UNCHANGED restOfState

\* render_final_frame(objects, final_image_path): savefig
SaveFinalImage ==
  \E t \in TaskIds :
    /\ task_pc[t] = "render_final"
    /\ files' = Written(files, FinalImagePath(t), t)
    /\ task_pc' = At(t, "open_first")
    /\ UNCHANGED <<frame_no, temp_path>>
    /\ UNCHANGED restOfState

\* Image.open(first_image_path).convert('RGB')
OpenFirstImage ==
  \E t \in TaskIds :
    /\ task_pc[t] = "open_first"
    /\ task_pc' = At(t, IF FirstImagePath(t) \in DOMAIN files THEN "open_final" ELSE "raised")
    /\ UNCHANGED <<frame_no, temp_path, files>>
    /\ UNCHANGED restOfState

\* Image.open(final_image_path).convert('RGB'), then the video branch or the return.
OpenFinalImage ==
  \E t \in TaskIds :
    /\ task_pc[t] = "open_final"
    /\ task_pc' = At(t, IF FinalImagePath(t) \notin DOMAIN files THEN "raised"
                        ELSE IF generate_videos /\ video_generator THEN "frame_save"
                        ELSE "returned")
    /\ UNCHANGED <<frame_no, temp_path, files>>
    /\ UNCHANGED restOfState

\* _render_frame_with_occluder up to plt.savefig(temp_path): the name is drawn
\* from the module-level random generator.
SaveFrame ==
  \E t \in TaskIds :
    /\ task_pc[t] = "frame_save"
    /\ \E n \in 0..MaxTempNumber :
         /\ temp_path' = [temp_path EXCEPT ![t] = TempFramePath(n)]
         /\ files' = Written(files, TempFramePath(n), t)
    /\ frame_no' = [frame_no EXCEPT ![t] = @ + 1]
    /\ task_pc' = At(t, "frame_open")
    /\ UNCHANGED restOfState

\* Image.open(temp_path).convert('RGB'): FileNotFoundError if the file is gone.
OpenFrame ==
  \E t \in TaskIds :
    /\ task_pc[t] = "frame_open"
    /\ task_pc' = At(t, IF temp_path[t] \in DOMAIN files THEN "frame_unlink" ELSE "raised")
    /\ UNCHANGED <<frame_no, temp_path, files>>
    /\ UNCHANGED restOfState

\* temp_path.unlink(): FileNotFoundError if the file is gone; then the next frame,
\* or the encoder after the last one.
UnlinkFrame ==
  \E t \in TaskIds :
    /\ task_pc[t] = "frame_unlink"
    /\ files' = Unlinked(files, temp_path[t])
    /\ task_pc' = At(t, IF temp_path[t] \notin DOMAIN files THEN "raised"
                        ELSE IF frame_no[t] < RenderCalls(default_transition_frames)
                        THEN "frame_save"
                        ELSE "encode")
    /\ temp_path' = [temp_path EXCEPT ![t] = Absent]
    /\ UNCHANGED frame_no
    /\ UNCHANGED restOfState

\* self.video_generator.create_video_from_frames(frames, video_path): the video
\* file is written, or the encoder returns nothing.
EncodeVideo ==
  \E t \in TaskIds :
    /\ task_pc[t] = "encode"
    /\ files' \in {Written(files, VideoPath(t), t), files}
    /\ task_pc' = At(t, "returned")
    /\ UNCHANGED <<frame_no, temp_path>>
    /\ UNCHANGED restOfState

NextParallel ==
  \/ SaveFirstImage \/ SaveFinalImage \/ OpenFirstImage \/ OpenFinalImage
  \/ SaveFrame \/ OpenFrame \/ UnlinkFrame \/ EncodeVideo

SpecParallel == InitParallel /\ [][NextParallel]_vars

\* --------------- generate_objects on the default canvas, every integer of the band
\* config.image_size by default.
DefaultCanvas == <<256, 256>>
\* rng.choice(seq) is sampled among the first BandKinds entries of seq here: the
\* color and the shape do not enter the collision check.
BandKinds == 1
BandChoice(seq) == {seq[k] : k \in 1..Min(BandKinds, Len(seq))}

\* The candidate centres <<x, y>> an attempt can draw: every integer randint can
\* return.
Band(canvas) ==
  (x_min_center(canvas[1])..x_max_center(canvas[1])) \X (y_min(canvas[2])..y_max(canvas[2]))

InitBand ==
  /\ canvas_size = DefaultCanvas
  /\ num_objects \in {1, max_num_objects}
  /\ seed = None
  /\ objects = <<>>
  /\ i = 0
  /\ attempt = 0
  /\ fallback_ids = {}
  /\ pc = "attempt"
  /\ Idle
  /\ NoSession

\* The attempts of object i, up to the one whose candidate passes the collision
\* check: the object is appended at that candidate.
SampleObject ==
  /\ pc = "attempt"
  /\ \E c \in Band(canvas_size) :
        /\ ~Collision(c[1], c[2], objects)
        /\ \E color \in BandChoice(COLORS) : \E shape \in BandChoice(SHAPES) :
              objects' = Append(objects, Obj(i, color, shape, c[1], c[2]))
  /\ i' = i + 1
  /\ attempt' = 0
  /\ pc' = AfterAppend(i)
  /\ UNCHANGED <<canvas_size, num_objects, seed, fallback_ids>>
  /\ UNCHANGED <<configVars, renderVars, timelineVars, prompt>>
  /\ UNCHANGED <<sessionVars, fileVars>>

\* The max_attempts attempts of object i all drawing a colliding candidate, and
\* the fallback branch that follows.
ExhaustAttempts ==
  /\ pc = "attempt"
  /\ IF \E c \in Band(canvas_size) : Collision(c[1], c[2], objects) THEN TRUE ELSE FALSE
  /\ \E color \in BandChoice(COLORS) : \E shape \in BandChoice(SHAPES) :
        objects' = Append(objects,
                     Obj(i, color, shape, FallbackX(canvas_size[1]),
                         FallbackY(canvas_size[2], i, num_objects)))
  /\ fallback_ids' = fallback_ids \cup {i}
  /\ i' = i + 1
  /\ attempt' = 0
  /\ pc' = AfterAppend(i)
  /\ UNCHANGED <<canvas_size, num_objects, seed>>
  /\ UNCHANGED <<configVars, renderVars, timelineVars, prompt>>
  /\ UNCHANGED <<sessionVars, fileVars>>

NextBand == SampleObject \/ ExhaustAttempts

SpecBand == InitBand /\ [][NextBand]_vars

\* ====================================================================== claims

\* C1 (as claimed): generate_objects never raises and, once it has returned, has
\* returned exactly num_objects objects, on every canvas with positive width and
\* height. Checked under SpecPlace.
C1_NeverRaisesAndReturnsCount ==
  /\ pc # "raised"
  /\ (pc = "returned" => Len(objects) = num_objects)

\* C2: an object appended by the sampling branch keeps the minimum spacing
\* (size_i + size_j)/2 + 40 to every object placed before it, so in a returned
\* scene without fallback objects every pair of distinct objects keeps it.
\* The distance is compared doubled and squared. Checked under SpecPlace.
Spaced(a, b) ==
  4 * ((a.x - b.x) * (a.x - b.x) + (a.y - b.y) * (a.y - b.y))
    >= (a.size + b.size + 80) * (a.size + b.size + 80)

C2_MinimumSpacing ==
  /\ \A j \in 1..Len(objects) :
       objects[j].id \notin fallback_ids =>
         \A k \in 1..(j - 1) : Spaced(objects[k], objects[j])
  /\ (pc = "returned" /\ fallback_ids = {}) =>
       \A j, k \in 1..Len(objects) : j # k => Spaced(objects[j], objects[k])

\* C2 witness: a returned scene of two objects, both placed by sampling.
C2_Witness ==
  /\ pc = "returned"
  /\ Len(objects) = 2
  /\ fallback_ids = {}

\* C3 (as claimed): every object, sampled or fallback, has x > 51 + 40 = 91 on
\* every canvas on which the call returns, and so lies clear of the occluder at
\* its start position (drawn from x = 1 to x = 51). Checked under SpecPlace.
C3_RightOfOccluderLane ==
  \A k \in 1..Len(objects) :
    /\ objects[k].x > 91
    /\ objects[k].x - objects[k].size \div 2 > 51

\* C4: the occluder positions of the frame sequence: 2*hold_frames + transition_frames
\* of them; the first hold_frames at occluder_x_start; the last hold_frames at
\* canvas_width + 50; the transition in between non-decreasing, from occluder_x_start
\* to canvas_width + 50, and at canvas_width + 50 when transition_frames = 1.
\* Positions are numerators over the denominator C4_Den. Checked under SpecTimeline.
C4_Den == IF transition_frames > 1 THEN transition_frames - 1 ELSE 1
C4_Start == occluder_x_start * C4_Den
C4_End == (canvas_size[1] + 50) * C4_Den

C4_Timeline ==
  pc = "frames_created" =>
    /\ Len(frames) = 2 * hold_frames + transition_frames
    /\ \A k \in 1..hold_frames : frames[k].occluder_x = C4_Start
    /\ \A k \in (hold_frames + transition_frames + 1)..Len(frames) :
         frames[k].occluder_x = C4_End
    /\ \A k \in (hold_frames + 1)..(hold_frames + transition_frames - 1) :
         frames[k].occluder_x <= frames[k + 1].occluder_x
    /\ frames[hold_frames + transition_frames].occluder_x = C4_End
    /\ (transition_frames > 1 => frames[hold_frames + 1].occluder_x = C4_Start)

\* C4 witness: the degenerate sequence with a single transition frame, which is
\* at the end position.
C4_Witness ==
  /\ pc = "frames_created"
  /\ transition_frames = 1
  /\ hold_frames = 5
  /\ Len(frames) = 11
  /\ frames[6].occluder_x = canvas_size[1] + 50

\* C5 (as claimed): in every animation frame the occluder is drawn iff
\* min(50, canvas_width - x) > 0 for its timeline position x, and is then drawn
\* with exactly that width. Checked under SpecTimeline.
C5_ClaimedWidth(k) == Min(50 * C4_Den, canvas_size[1] * C4_Den - frames[k].occluder_x)

C5_DrawnIffVisible ==
  \A k \in 1..Len(frames) :
    /\ (frames[k].occluder # <<>>) <=> (C5_ClaimedWidth(k) > 0)
    /\ (frames[k].occluder # <<>>) => frames[k].occluder[1].width = C5_ClaimedWidth(k)

\* C5 (amended): the occluder is drawn one pixel right of its timeline position x,
\* iff min(50, canvas_width - (x + 1)) > 0, and then with exactly that width; no
\* occluder is drawn in the final hold frames. Checked under SpecTimeline.
C5_AdjustedWidth(k) ==
  Min(50 * C4_Den, (canvas_size[1] - 1) * C4_Den - frames[k].occluder_x)

C5_DrawnIffAdjustedVisible ==
  /\ \A k \in 1..Len(frames) :
       /\ (frames[k].occluder # <<>>) <=> (C5_AdjustedWidth(k) > 0)
       /\ (frames[k].occluder # <<>>) =>
            /\ frames[k].occluder[1].width = C5_AdjustedWidth(k)
            /\ frames[k].occluder[1].x = frames[k].occluder_x + C4_Den
  /\ \A k \in (hold_frames + transition_frames + 1)..Len(frames) :
       frames[k].occluder = <<>>

\* C5 witness: the default timeline on the default canvas: at x = 229.5 the occluder
\* is drawn clamped to 25.5 pixels, at x = 255 (one pixel from the right edge) it is not drawn.
C5_Witness ==
  /\ pc = "frames_created"
  /\ canvas_size[1] = 256 /\ hold_frames = 5 /\ transition_frames = 25
  /\ occluder_x_start = 0
  /\ frames[24].occluder_x = 5508 /\ frames[24].occluder # <<>>
  /\ frames[24].occluder[1].width = 612
  /\ frames[26].occluder_x = 255 * 24 /\ frames[26].occluder = <<>>

\* C6: once generate_objects has returned, no step of generate_task_pair changes
\* the object list, and every render made so far (the two stills and every
\* animation frame) drew exactly the objects of that list, in order, with their
\* x, y, size, shape and colour. Checked under SpecTask.
C6_Placed == pc \in {"returned", "render_final", "video", "get_prompt", "done"}

C6_SameLayout(draws) ==
  /\ Len(draws) = Len(objects)
  /\ \A k \in 1..Len(objects) :
       /\ draws[k].x = objects[k].x
       /\ draws[k].y = objects[k].y
       /\ draws[k].size = objects[k].size
       /\ draws[k].shape = objects[k].shape
       /\ draws[k].color = COLOR_MAP(objects[k].color)

C6_RendersAgree ==
  /\ (pc \in {"render_final", "video", "get_prompt", "done"} =>
        C6_SameLayout(first_image.draws))
  /\ (pc \in {"video", "get_prompt", "done"} => C6_SameLayout(final_image.draws))
  /\ \A k \in 1..Len(frames) : C6_SameLayout(frames[k].draws)

C6_ObjectsInvariant == [][C6_Placed => (objects' = objects /\ C6_RendersAgree')]_vars

\* C6 witness: a finished task of two objects with its stills and its 35 frames.
C6_Witness ==
  /\ pc = "done"
  /\ Len(objects) = 2
  /\ Len(frames) = 35
  /\ frames[1].occluder # <<>> /\ frames[35].occluder = <<>>
  /\ frames[1].draws = frames[35].draws
  /\ first_image.draws = final_image.draws

\* C7: the description parts: one per distinct (color, shape) pair, in order of
\* first appearance; a pair occurring once reads "<a|an> <color> <shape>", "an"
\* iff the color starts with a vowel; a pair occurring n > 1 times reads
\* "<n> <color> <shape>s", n spelled out up to ten and in digits above.
\* Checked under SpecPrompt.
C7_SameKind(j, k) ==
  objects[j].color = objects[k].color /\ objects[j].shape = objects[k].shape
C7_FirstOfKind == {k \in 1..Len(objects) : \A j \in 1..(k - 1) : ~C7_SameKind(j, k)}
C7_Rank(k) == Cardinality({j \in C7_FirstOfKind : j <= k})
C7_Occurrences(k) == Cardinality({j \in 1..Len(objects) : C7_SameKind(j, k)})
C7_CountWord(n) ==
  CASE n = 2 -> "two" [] n = 3 -> "three" [] n = 4 -> "four" [] n = 5 -> "five"
    [] n = 6 -> "six" [] n = 7 -> "seven" [] n = 8 -> "eight" [] n = 9 -> "nine"
    [] n = 10 -> "ten" [] n = 11 -> "11" [] n = 12 -> "12" [] n = 13 -> "13"
    [] OTHER -> "?"
C7_Entry(k) ==
  IF C7_Occurrences(k) = 1
  THEN (IF SubSeq(objects[k].color, 1, 1) \in {"a", "e", "i", "o", "u"}
        THEN "an" ELSE "a") \o " " \o objects[k].color \o " " \o objects[k].shape
  ELSE C7_CountWord(C7_Occurrences(k)) \o " " \o objects[k].color \o " "
         \o objects[k].shape \o "s"

C7_DescriptionEntries ==
  pc = "done" =>
    /\ Len(description_parts(objects)) = Cardinality(C7_FirstOfKind)
    /\ \A k \in C7_FirstOfKind : description_parts(objects)[C7_Rank(k)] = C7_Entry(k)

\* C7 witness: a red square followed by eleven orange circles: the pair seen
\* first comes first, the eleven are counted in digits.
C7_Witness ==
  /\ pc = "done"
  /\ Len(objects) = 12
  /\ description_parts(objects) = <<"a red square", "11 orange circles">>

\* C8: the description joins the parts by their number alone: one part
\* capitalized; two parts "<First> and <second>"; three or more
\* "<First>, <middle>, ..., and <last>". Checked under SpecPrompt.
C8_Capitalized(s) == Upper(SubSeq(s, 1, 1)) \o SubSeq(s, 2, Len(s))
RECURSIVE C8_Commas(_, _)
C8_Commas(parts, k) ==
  IF k >= Len(parts) THEN ", and " \o parts[k]
  ELSE ", " \o parts[k] \o C8_Commas(parts, k + 1)
C8_Joined(parts) ==
  IF Len(parts) = 1 THEN C8_Capitalized(parts[1])
  ELSE IF Len(parts) = 2 THEN C8_Capitalized(parts[1]) \o " and " \o parts[2]
  ELSE C8_Capitalized(parts[1]) \o C8_Commas(parts, 2)

C8_JoinByGroupCount ==
  pc = "done" => prompt.objects_description = C8_Joined(description_parts(objects))

\* C8 witness: three objects in two groups are joined with "and".
C8_Witness ==
  /\ pc = "done"
  /\ Len(objects) = 3
  /\ objects[1].color = "green" /\ objects[2].color = "red"
  /\ prompt.objects_description = "Two green triangles and a red square"

\* C9: the reference and the pronoun follow the number of objects: one object
\* gives "the <shape>" and "it", two or more give "the other objects" and "them",
\* whatever the number of groups; the text carries them. Checked under SpecPrompt.
C9_ReferenceByObjectCount ==
  pc = "done" =>
    /\ (Len(objects) = 1 =>
          /\ prompt.objects_reference = "the " \o objects[1].shape
          /\ prompt.objects_pronoun = "it")
    /\ (Len(objects) >= 2 =>
          /\ prompt.objects_reference = "the other objects"
          /\ prompt.objects_pronoun = "them")
    /\ prompt.text = PROMPT_TEMPLATE(prompt.objects_description,
                                     prompt.objects_reference, prompt.objects_pronoun)

\* C9 witness: two objects of one group are still "the other objects" / "them".
C9_Witness ==
  /\ pc = "done"
  /\ Len(objects) = 2
  /\ prompt.objects_description = "Two blue circles"
  /\ prompt.objects_reference = "the other objects"
  /\ prompt.objects_pronoun = "them"

\* C10: the difficulty fixes the number of objects: easy 1, medium 2, hard 3,
\* anything else (or none) 1; the scene, both stills, every frame and the prompt
\* of the task are made of that many objects. Checked under SpecTask.
C10_Expected ==
  CASE difficulty = "easy" -> 1
    [] difficulty = "medium" -> 2
    [] difficulty = "hard" -> 3
    [] OTHER -> 1

C10_ObjectCountByDifficulty ==
  /\ (pc # "generate_task_pair" => num_objects = C10_Expected)
  /\ (C6_Placed => Len(objects) = C10_Expected)
  /\ (pc \in {"render_final", "video", "get_prompt", "done"} =>
        Len(first_image.draws) = C10_Expected)
  /\ (pc \in {"video", "get_prompt", "done"} => Len(final_image.draws) = C10_Expected)
  /\ \A k \in 1..Len(frames) : Len(frames[k].draws) = C10_Expected
  /\ (pc = "done" =>
        /\ prompt.objects_pronoun = (IF C10_Expected = 1 THEN "it" ELSE "them")
        /\ prompt.objects_description = C8_Joined(description_parts(objects)))

\* C10 witness: a finished "hard" task: three objects in the scene, the stills
\* and the frames.
C10_Witness ==
  /\ pc = "done"
  /\ difficulty = "hard"
  /\ Len(objects) = 3
  /\ Len(first_image.draws) = 3
  /\ Len(frames) = 35 /\ Len(frames[35].draws) = 3

\* C11: any two calls generate_objects(num_objects, seed) on one generator with
\* the same num_objects and the same seed, the seed not None, return the same
\* object sequence, whatever calls were made before either. Checked under
\* SpecSeed (the canvas size of a generator is fixed).
C11_SameSeedSameObjects ==
  \A j, k \in 1..Len(call_log) :
    (/\ call_log[j].seed # None
     /\ call_log[j].seed = call_log[k].seed
     /\ call_log[j].num_objects = call_log[k].num_objects)
      => call_log[j].objects = call_log[k].objects

\* The same seeded call made first and third, from different generator states,
\* with an unseeded call between them.
C11_Witness ==
  /\ Len(call_log) = 3
  /\ call_log[1].seed # None
  /\ call_log[3].seed = call_log[1].seed
  /\ call_log[3].num_objects = call_log[1].num_objects
  /\ call_log[2].seed = None
  /\ call_log[3].rng_before # call_log[1].rng_before
  /\ call_log[3].num_objects = 3

\* C12 (as claimed): the scene of a task does not depend on the tasks generated
\* before it on the same TaskGenerator, with or without a configured random
\* seed: every task of a session got the scene the same call returns when it is
\* the first of the session, made in the state the generator was constructed
\* in. Checked under SpecSession.
C12_SceneIndependentOfEarlierTasks ==
  \A k \in 1..Len(call_log) :
    call_log[k].objects =
      GenerateObjectsFrom(call_log[1].rng_before, call_log[k].num_objects,
                          call_log[k].seed, canvas_size).objects

\* C13 (as claimed): two tasks with distinct task identifiers generated in
\* parallel never write, read or unlink the same path: the paths a task has
\* written and not deleted, or is about to read or unlink, are disjoint from the
\* other task's. Checked under SpecParallel.
C13_PathsInUse(t) ==
  {p \in DOMAIN files : files[p] = t}
    \cup (IF task_pc[t] \in {"frame_open", "frame_unlink"} THEN {temp_path[t]} ELSE {})

C13_NoSharedPath ==
  \A t, u \in TaskIds : t # u => C13_PathsInUse(t) \cap C13_PathsInUse(u) = {}

\* C14 (as claimed): when video generation is enabled and no video generator is
\* available, generate_task_pair never raises, and the TaskPair it returns has
\* both stills and no video. Checked under SpecTask.
C14_EncoderUnavailableNonFatal ==
  (generate_videos /\ ~video_generator) =>
    /\ pc # "raised"
    /\ pc = "done" =>
         /\ first_image # NoImage
         /\ final_image # NoImage
         /\ video_path = Absent
         /\ frames = <<>>

\* C15: on the default 256x256 canvas the band is x in 113..179, y in 106..149,
\* and every returned scene of 3 objects has at least one object placed by the
\* fallback branch, at x = 128, y = 128 + (id - 1) * 50. Checked under SpecBand.
C15_ThreeObjectsNeedFallback ==
  /\ x_min_center(DefaultCanvas[1]) = 113
  /\ x_max_center(DefaultCanvas[1]) = 179
  /\ y_min(DefaultCanvas[2]) = 106
  /\ y_max(DefaultCanvas[2]) = 149
  /\ (pc = "returned" /\ num_objects = 3) =>
       /\ fallback_ids # {}
       /\ \A k \in 1..Len(objects) :
            objects[k].id \in fallback_ids =>
              /\ objects[k].x = 128
              /\ objects[k].y = 128 + (objects[k].id - 1) * 50

\* A returned scene of 3 objects: two accepted samples, then the fallback.
C15_Witness ==
  /\ pc = "returned"
  /\ num_objects = 3
  /\ fallback_ids = {2}
  /\ Spaced(objects[1], objects[2])
  /\ ~Spaced(objects[2], objects[3])

====
